---- MODULE Spec2Model ----
(***************************************************************************)
(* Model of the skladisce transfer engine (internal/store) over its SQLite *)
(* database: the owners, items, users, inventory, transfers and settings   *)
(* tables, and the store operations CreateTransfer, AddStock,              *)
(* AdjustInventory, DeleteOwner and GetJWTSecret, each executed statement  *)
(* by statement by concurrent request goroutines on pooled connections,    *)
(* and the single-statement operations of the user store.                  *)
(*                                                                         *)
(* Database semantics (SQLite, journal_mode=WAL, database/sql pool):       *)
(*  - db.BeginTx(ctx, nil) opens a DEFERRED transaction: no lock is taken  *)
(*    until the first statement that touches a table.  "SELECT 1" touches  *)
(*    no table and takes no lock.                                          *)
(*  - the first table read fixes the transaction's snapshot;               *)
(*  - the first write must obtain the single WAL write lock.  A            *)
(*    transaction that already holds a snapshot gets SQLITE_BUSY at once   *)
(*    when another connection holds the lock, and SQLITE_BUSY_SNAPSHOT     *)
(*    when another connection has committed since the snapshot;            *)
(*  - uncommitted writes are visible to the writer only; COMMIT publishes  *)
(*    them at once; ROLLBACK (deferred tx.Rollback, a cancelled context, a *)
(*    stopped process) discards them;                                      *)
(*  - the pragmas of db.Open are executed on one pooled connection, so a   *)
(*    transaction runs on a connection with or without foreign_keys=ON.    *)
(*    The setting of a transaction's connection is fixed for the whole     *)
(*    transaction; the model draws it at the transaction's first write,    *)
(*    the first statement it can influence, and keeps it in wal.fk.        *)
(***************************************************************************)
EXTENDS Integers, Sequences, FiniteSets, TLC

\* ---------------------------------------------------------------- bounds
MaxOwners == 2
MaxItems == 1
MaxUsers == 1
MaxQty == 2
MaxTransfers == 1
\* entries of the log in the specification of transfer sequences
MaxRounds == 4
\* owners in the specification of transfers among bystanders
MaxHolders == 3
\* rows of the users table in the specification of users and settings
MaxAccounts == 3

\* the concurrent request goroutines
Procs == {1, 2}

OwnerIds == 1..MaxOwners
\* the items table is not changed by any modelled call: the item ids the
\* callers pass are ids of rows of items
ItemIds == 1..MaxItems
UserIds == 1..MaxUsers
OwnerTypePerson == "person"
OwnerTypeLocation == "location"
OwnerTypes == {OwnerTypePerson, OwnerTypeLocation}
\* the owners the callers create: locations and people in turn, as the
\* store tests do ("Storage", then "Alice")
OwnerTypeFor(id) == IF id % 2 = 1 THEN OwnerTypeLocation ELSE OwnerTypePerson
\* the usernames and the roles of the users table
Usernames == {"alice", "bob"}
RoleAdmin == "admin"
RoleManager == "manager"
RoleUser == "user"
Roles == {RoleAdmin, RoleManager, RoleUser}
\* transferredBy *int64: nil or a user id
NoActor == 0
Actors == {NoActor} \cup UserIds
NoNotes == ""
Notes == {NoNotes, "n"}
NonPositive == {0 - 1, 0}
Quantities == NonPositive \cup (1..MaxQty)
Deltas == (0 - MaxQty)..MaxQty

\* the values rand.Read and hex.EncodeToString produce
Secrets == {"s1", "s2"}

\* no goroutine holds the WAL write lock
NoWriter == 0
\* sql.ErrNoRows / value not read
NoRows == 0 - 1

VARIABLES
    owners,     \* owners table: sequence of rows, id = index
    users,      \* users table: sequence of rows, id = index
    settings,   \* settings table: the values of the rows with key 'jwt_secret'
    inventory,  \* committed inventory table: set of rows
    transfers,  \* committed transfers table: sequence of rows, id = index
    writer,     \* goroutine whose connection holds the WAL write lock
    wal,        \* uncommitted inventory and transfers of the writer
    pc,         \* position of each goroutine in its store call
    args,       \* arguments of the call in progress
    local,      \* value read by the call (available / current / count)
    stale,      \* the goroutine's snapshot is older than the last commit
    ret         \* what the last step returned to its caller, if it returned

vars == <<owners, users, settings, inventory, transfers, writer, wal, pc, args, local,
          stale, ret>>
dbvars == <<owners, users, settings, inventory, transfers>>

NoArgs == [op |-> "none"]
\* the value returned next to the error: nil, "", or none declared
NoValue == 0
NoRet == [call |-> NoArgs, result |-> "none", value |-> NoValue]
Ret(a, r) == [call |-> a, result |-> r, value |-> NoValue]
RetValue(a, r, v) == [call |-> a, result |-> r, value |-> v]

\* the results of the store calls: nil, or the error returned
Ok == "ok"
ErrSelfTransfer == "cannot transfer to same owner"
ErrQuantity == "quantity must be positive"
ErrInsufficient == "insufficient quantity"
ErrUpdatingSource == "updating source inventory"
ErrUpdatingDestination == "updating destination inventory"
ErrRecordingTransfer == "recording transfer"
ErrGettingTransfer == "getting transfer"
ErrOwnerNotFound == "owner not found"
ErrNotLocation == "stock can only be added to locations"
ErrAddingStock == "adding stock"
ErrZeroDelta == "delta must be non-zero"
ErrNegative == "adjustment would result in negative quantity"
ErrAdjusting == "adjusting inventory"
ErrHasInventory == "cannot delete owner: still holds inventory"
ErrDeletingOwner == "deleting owner"
ErrCreatingUser == "creating user"
ErrUpdatingUser == "updating user"
ErrQueryingSecret == "querying jwt_secret"
ErrCancelled == "context canceled"
Crashed == "process stopped"

ArgsTransfer(i, from, to, q, n, by) ==
    [op |-> "transfer", item |-> i, from |-> from, to |-> to, quantity |-> q,
     notes |-> n, by |-> by]
ArgsAddStock(i, o, q) == [op |-> "addstock", item |-> i, owner |-> o, quantity |-> q]
ArgsAdjust(i, o, d) == [op |-> "adjust", item |-> i, owner |-> o, delta |-> d]
ArgsDeleteOwner(o) == [op |-> "deleteowner", owner |-> o]
ArgsCreateUser(n, r) == [op |-> "createuser", username |-> n, role |-> r]
ArgsGetUserByUsername(n) == [op |-> "getuserbyusername", username |-> n]
ArgsUpdateUser(id, r) == [op |-> "updateuser", id |-> id, role |-> r]
ArgsDeleteUser(id) == [op |-> "deleteuser", id |-> id]
ArgsGetJWTSecret(c) == [op |-> "getjwtsecret", candidate |-> c]
NoWal == [inventory |-> {}, transfers |-> <<>>, fk |-> FALSE]

\* ------------------------------------------------------- inventory table
InvRow(i, o, q) == [item_id |-> i, owner_id |-> o, quantity |-> q]

Rows(inv, i, o) == {r \in inv : r.item_id = i /\ r.owner_id = o}

\* SELECT COALESCE(quantity, 0) FROM inventory WHERE item_id = ? AND owner_id = ?
SelectQuantity(inv, i, o) ==
    IF Rows(inv, i, o) = {} THEN NoRows
    ELSE (CHOOSE r \in Rows(inv, i, o) : TRUE).quantity

\* the value the callers keep: ErrNoRows becomes 0
Available(inv, i, o) ==
    IF SelectQuantity(inv, i, o) = NoRows THEN 0 ELSE SelectQuantity(inv, i, o)

\* quantity INTEGER NOT NULL CHECK (quantity > 0)
CheckQuantity(q) == q > 0

\* the DELETE without "AND owner_id = ?": the rows of every owner of the item
DeleteRowAllOwners(inv, i, o) == {r \in inv : r.item_id # i}

\* DELETE FROM inventory WHERE item_id = ? AND owner_id = ?
DeleteRow(inv, i, o) == inv \ Rows(inv, i, o)

\* UPDATE inventory SET quantity = ? WHERE item_id = ? AND owner_id = ?
UpdateQuantity(inv, i, o, q) ==
    (inv \ Rows(inv, i, o)) \cup {InvRow(i, o, q) : r \in Rows(inv, i, o)}

\* the upsert without the addition: DO UPDATE SET quantity = excluded.quantity
UpsertOverwrite(inv, i, o, q) == (inv \ Rows(inv, i, o)) \cup {InvRow(i, o, q)}

\* the upsert as a plain INSERT on a table without the primary key: a
\* second row for the pair
UpsertInsertOnly(inv, i, o, q) == inv \cup {InvRow(i, o, q)}

\* INSERT INTO inventory ... ON CONFLICT (item_id, owner_id) DO UPDATE SET quantity = quantity + ?
Upsert(inv, i, o, q) ==
    IF Rows(inv, i, o) = {} THEN inv \cup {InvRow(i, o, q)}
    ELSE (inv \ Rows(inv, i, o)) \cup {InvRow(i, o, r.quantity + q) : r \in Rows(inv, i, o)}

\* SELECT COUNT(*) FROM inventory WHERE owner_id = ?
CountOwner(inv, o) == Cardinality({r \in inv : r.owner_id = o})

\* REFERENCES items(id) / REFERENCES owners(id) / REFERENCES users(id)
ItemExists(i) == i \in ItemIds
OwnerExists(o) == o \in 1..Len(owners)
UserExists(u) == u \in 1..Len(users)

\* foreign keys of a new inventory row, enforced when the connection has
\* foreign_keys=ON
FKInventory(fk, i, o) == fk => (ItemExists(i) /\ OwnerExists(o))

\* foreign keys of a new transfers row; transferred_by may be NULL
FKTransfer(fk, i, from, to, by) ==
    fk => (ItemExists(i) /\ OwnerExists(from) /\ OwnerExists(to)
           /\ (by # NoActor => UserExists(by)))

\* the audit row with source and destination in each other's column
TransferRowSwapped(id, i, from, to, q, n, by) ==
    [id |-> id, item_id |-> i, from_owner_id |-> to, to_owner_id |-> from,
     quantity |-> q, notes |-> n, transferred_by |-> by]

\* the audit row with its columns mixed up: the item id written as the id
TransferRowIdByItem(id, i, from, to, q, n, by) ==
    [id |-> i, item_id |-> i, from_owner_id |-> from, to_owner_id |-> to,
     quantity |-> q, notes |-> n, transferred_by |-> by]

TransferRow(id, i, from, to, q, n, by) ==
    [id |-> id, item_id |-> i, from_owner_id |-> from, to_owner_id |-> to,
     quantity |-> q, notes |-> n, transferred_by |-> by]

\* sum of the quantities of the rows of a set
RECURSIVE SumRows(_)
SumRows(S) ==
    IF S = {} THEN 0
    ELSE LET r == CHOOSE x \in S : TRUE IN r.quantity + SumRows(S \ {r})

\* total quantity of item i over all owners
TotalOf(inv, i) == SumRows({r \in inv : r.item_id = i})

\* ------------------------------------------------------------ connection
\* pcs at which a goroutine's transaction holds a read snapshot and has not
\* yet written
SnapshotPcs == {"t_src", "a_upsert", "j_write"}

\* pcs at which a goroutine's transaction holds the WAL write lock
WriterPcs == {"t_dst", "t_audit", "t_commit", "a_commit", "j_commit"}

\* a commit by p makes the snapshot of every other open transaction stale
MarkStale(p) ==
    [q \in Procs |-> IF q # p /\ pc[q] \in SnapshotPcs THEN TRUE ELSE stale[q]]

\* the first write without the snapshot check: the lock is free, whatever
\* was committed since the transaction read
CanWriteStale(p) == writer = NoWriter

\* the first write of a transaction that holds a snapshot: the WAL write
\* lock is free and nothing was committed since the snapshot
CanWrite(p) == writer = NoWriter /\ ~stale[p]

\* the call of p returns r to its caller
Finish(p, r) ==
    /\ pc' = [pc EXCEPT ![p] = "idle"]
    /\ ret' = Ret(args[p], r)
    /\ args' = [args EXCEPT ![p] = NoArgs]
    /\ local' = [local EXCEPT ![p] = NoRows]

\* the call of p returns r before it has opened a transaction
Reject(p, a, r) ==
    /\ ret' = Ret(a, r)
    /\ UNCHANGED <<pc, args, local, stale>>

\* the call of p has opened its transaction and read v
Enter(p, l, a, v) ==
    /\ pc' = [pc EXCEPT ![p] = l]
    /\ args' = [args EXCEPT ![p] = a]
    /\ local' = [local EXCEPT ![p] = v]
    /\ stale' = [stale EXCEPT ![p] = FALSE]
    /\ ret' = NoRet

\* the deferred tx.Rollback: the write lock, if held, is released and the
\* uncommitted rows are dropped
Rollback(p) ==
    /\ writer' = IF writer = p THEN NoWriter ELSE writer
    /\ wal' = IF writer = p THEN NoWal ELSE wal
    /\ stale' = [stale EXCEPT ![p] = FALSE]
    /\ UNCHANGED dbvars

Goto(p, l) ==
    /\ pc' = [pc EXCEPT ![p] = l]
    /\ ret' = NoRet
    /\ UNCHANGED <<args, local, stale>>

\* bounds on the size of the explored database: the quantity held, the
\* quantity that calls in progress may still add, the calls in progress
Load == SumRows(inventory)

RECURSIVE Pending(_)
Pending(P) ==
    IF P = {} THEN 0
    ELSE LET p == CHOOSE x \in P : TRUE
             adds == IF args[p].op = "addstock" THEN args[p].quantity
                     ELSE IF args[p].op = "adjust" /\ args[p].delta > 0 THEN args[p].delta
                     ELSE 0
         IN adds + Pending(P \ {p})

Init ==
    /\ owners = <<>>
    /\ users = <<>>
    /\ settings = {}
    /\ inventory = {}
    /\ transfers = <<>>
    /\ writer = NoWriter
    /\ wal = NoWal
    /\ pc = [p \in Procs |-> "idle"]
    /\ args = [p \in Procs |-> NoArgs]
    /\ local = [p \in Procs |-> NoRows]
    /\ stale = [p \in Procs |-> FALSE]
    /\ ret = NoRet

\* ------------------------------------------------- entity store (single
\* autocommit statements; they wait for the write lock)
CreateOwner(t, max) ==
    /\ Len(owners) < max
    /\ t = OwnerTypeFor(Len(owners) + 1)
    /\ writer = NoWriter
    /\ owners' = Append(owners, [type |-> t, deleted |-> FALSE])
    /\ stale' = MarkStale(0)
    /\ ret' = NoRet
    /\ UNCHANGED <<users, settings, inventory, transfers, writer, wal, pc, args, local>>

\* ------------------------------------------------------------------- users
UserRow(n, r) == [username |-> n, role |-> r, deleted |-> FALSE]

\* the rows with "id = ? AND deleted_at IS NULL"
ActiveUser(us, id) == id \in 1..Len(us) /\ ~us[id].deleted

\* the index as a plain UNIQUE (username): soft-deleted rows count too
UsernameTakenAnyRow(us, n) == \E k \in 1..Len(us) : us[k].username = n

\* CREATE UNIQUE INDEX idx_users_username_active ON users(username)
\* WHERE deleted_at IS NULL: a row that is not deleted has the username
UsernameTaken(us, n) == \E k \in 1..Len(us) : us[k].username = n /\ ~us[k].deleted

\* CHECK (role IN ('admin', 'manager', 'user'))
CheckRole(r) == r \in Roles

\* INSERT INTO users (username, password_hash, role), then GetUser(id);
\* max bounds the rows of the table
CreateUser(n, r, max) ==
    /\ Len(users) < max
    /\ writer = NoWriter
    /\ IF CheckRole(r) /\ ~UsernameTaken(users, n) THEN
           /\ users' = Append(users, UserRow(n, r))
           /\ ret' = RetValue(ArgsCreateUser(n, r), Ok, Len(users) + 1)
           /\ stale' = MarkStale(0)
       ELSE
           /\ ret' = Ret(ArgsCreateUser(n, r), ErrCreatingUser)
           /\ UNCHANGED <<users, stale>>
    /\ UNCHANGED <<owners, settings, inventory, transfers, writer, wal, pc, args, local>>

\* SELECT ... FROM users WHERE username = ?, scanned by QueryRowContext:
\* no index covers the query (idx_users_username_active is partial), the
\* table is read in id order and the first matching row is returned,
\* deleted or not; ErrNoRows when there is none
FirstMatch(us, n) ==
    IF \E k \in 1..Len(us) : us[k].username = n
    THEN CHOOSE k \in 1..Len(us) :
             us[k].username = n /\ \A j \in 1..(k - 1) : us[j].username # n
    ELSE NoRows

\* GetUserByUsername returns the row (its id here), or nil for ErrNoRows
GetUserByUsername(n) ==
    /\ ret' = RetValue(ArgsGetUserByUsername(n), Ok, FirstMatch(users, n))
    /\ UNCHANGED <<dbvars, writer, wal, pc, args, local, stale>>

\* what UpdateUser returns: the error of ExecContext, which is nil when no
\* row matches; the CHECK on role fails the statement for a matching row
UpdateResult(us, id, r) ==
    IF ActiveUser(us, id) /\ ~CheckRole(r) THEN ErrUpdatingUser ELSE Ok

\* UPDATE users SET role = ? WHERE id = ? AND deleted_at IS NULL
UpdateUser(id, r) ==
    /\ writer = NoWriter
    /\ ret' = Ret(ArgsUpdateUser(id, r), UpdateResult(users, id, r))
    /\ IF ActiveUser(users, id) /\ CheckRole(r) THEN
           /\ users' = [users EXCEPT ![id].role = r]
           /\ stale' = MarkStale(0)
       ELSE UNCHANGED <<users, stale>>
    /\ UNCHANGED <<owners, settings, inventory, transfers, writer, wal, pc, args, local>>

\* UPDATE users SET deleted_at = CURRENT_TIMESTAMP WHERE id = ? AND
\* deleted_at IS NULL
DeleteUser(id) ==
    /\ writer = NoWriter
    /\ ret' = Ret(ArgsDeleteUser(id), Ok)
    /\ IF ActiveUser(users, id) THEN
           /\ users' = [users EXCEPT ![id].deleted = TRUE]
           /\ stale' = MarkStale(0)
       ELSE UNCHANGED <<users, stale>>
    /\ UNCHANGED <<owners, settings, inventory, transfers, writer, wal, pc, args, local>>

\* ---------------------------------------------------------------- settings
\* the insert as INSERT OR REPLACE: the candidate takes the place of the
\* stored row
InsertOrReplace(rows, candidate) == {candidate}

\* INSERT OR IGNORE INTO settings (key, value) VALUES ('jwt_secret', ?):
\* key is the primary key, the row is inserted when no row has the key
InsertOrIgnore(rows, candidate) == IF rows = {} THEN {candidate} ELSE rows

\* rand.Read, hex.EncodeToString and the INSERT OR IGNORE of the candidate
GetJWTSecretInsert(p, candidate) ==
    /\ pc[p] = "idle"
    /\ writer = NoWriter
    /\ settings' = InsertOrIgnore(settings, candidate)
    /\ pc' = [pc EXCEPT ![p] = "s_select"]
    /\ args' = [args EXCEPT ![p] = ArgsGetJWTSecret(candidate)]
    /\ ret' = NoRet
    /\ stale' = MarkStale(0)
    /\ UNCHANGED <<owners, users, inventory, transfers, writer, wal, local>>

\* "Always read back": SELECT value FROM settings WHERE key = 'jwt_secret'
GetJWTSecretSelect(p) ==
    /\ pc[p] = "s_select"
    /\ pc' = [pc EXCEPT ![p] = "idle"]
    /\ args' = [args EXCEPT ![p] = NoArgs]
    /\ IF settings = {} THEN ret' = Ret(args[p], ErrQueryingSecret)
       ELSE \E v \in settings : ret' = RetValue(args[p], Ok, v)
    /\ UNCHANGED <<dbvars, writer, wal, local, stale>>

\* ---------------------------------------------------------- CreateTransfer
\* the argument checks without the same-owner check
ValidateTransferNoSelf(from, to, q) == IF q <= 0 THEN ErrQuantity ELSE Ok

\* the argument checks with "quantity < 0": zero passes
ValidateTransferZero(from, to, q) ==
    IF from = to THEN ErrSelfTransfer
    ELSE IF q < 0 THEN ErrQuantity
    ELSE Ok

\* the argument checks of CreateTransfer: the error, or Ok
ValidateTransfer(from, to, q) ==
    IF from = to THEN ErrSelfTransfer
    ELSE IF q <= 0 THEN ErrQuantity
    ELSE Ok

\* the comparison off by one: one unit more than held passes
SufficientOffByOne(available, q) == ~(available + 1 < q)

\* "if available < quantity": the holding read covers the quantity asked
Sufficient(available, q) == ~(available < q)

\* validation, BeginTx, "SELECT 1", the read of the source holding and the
\* quantity check
CreateTransferCall(p, i, from, to, q, n, by) ==
    /\ pc[p] = "idle"
    /\ UNCHANGED <<dbvars, writer, wal>>
    /\ IF ValidateTransfer(from, to, q) # Ok THEN
           Reject(p, ArgsTransfer(i, from, to, q, n, by), ValidateTransfer(from, to, q))
       ELSE IF ~Sufficient(Available(inventory, i, from), q) THEN
           Reject(p, ArgsTransfer(i, from, to, q, n, by), ErrInsufficient)
       ELSE
           Enter(p, "t_src", ArgsTransfer(i, from, to, q, n, by),
                 Available(inventory, i, from))

\* the decrement without the DELETE branch: a holding that reaches zero is
\* left as it was
DecreaseSourceNoDelete(inv, i, from, available, q) ==
    IF available - q = 0 THEN inv
    ELSE UpdateQuantity(inv, i, from, available - q)

\* the decrement as an UPDATE in every case: a holding that reaches zero is
\* kept as a row with quantity 0
DecreaseSourceZeroRow(inv, i, from, available, q) ==
    UpdateQuantity(inv, i, from, available - q)

\* the source holding after the decrement: DELETE when it reaches zero,
\* UPDATE otherwise
DecreaseSource(inv, i, from, available, q) ==
    IF available - q = 0 THEN DeleteRow(inv, i, from)
    ELSE UpdateQuantity(inv, i, from, available - q)

\* "Decrease from source": the first write of the transaction
TransferSource(p, fk) ==
    /\ pc[p] = "t_src"
    /\ IF CanWrite(p) THEN
           /\ writer' = p
           /\ wal' = [inventory |-> DecreaseSource(inventory, args[p].item, args[p].from,
                                                   local[p], args[p].quantity),
                      transfers |-> transfers, fk |-> fk]
           /\ Goto(p, "t_dst")
           /\ UNCHANGED dbvars
       ELSE
           /\ Finish(p, ErrUpdatingSource)
           /\ Rollback(p)

\* "Increase at destination"
TransferDestination(p) ==
    /\ pc[p] = "t_dst"
    /\ IF Rows(wal.inventory, args[p].item, args[p].to) # {}
          \/ FKInventory(wal.fk, args[p].item, args[p].to) THEN
           /\ wal' = [wal EXCEPT !.inventory =
                  Upsert(wal.inventory, args[p].item, args[p].to, args[p].quantity)]
           /\ Goto(p, "t_audit")
           /\ UNCHANGED <<dbvars, writer>>
       ELSE
           /\ Finish(p, ErrUpdatingDestination)
           /\ Rollback(p)

\* "Record the transfer"
TransferRecord(p) ==
    /\ pc[p] = "t_audit"
    /\ IF FKTransfer(wal.fk, args[p].item, args[p].from, args[p].to, args[p].by) THEN
           /\ wal' = [wal EXCEPT !.transfers =
                  Append(wal.transfers,
                         TransferRow(Len(wal.transfers) + 1, args[p].item, args[p].from,
                                     args[p].to, args[p].quantity, args[p].notes,
                                     args[p].by))]
           /\ Goto(p, "t_commit")
           /\ UNCHANGED <<dbvars, writer>>
       ELSE
           /\ Finish(p, ErrRecordingTransfer)
           /\ Rollback(p)

\* tx.Commit: the holdings and the audit entry are published at once
TransferCommit(p) ==
    /\ pc[p] = "t_commit"
    /\ inventory' = wal.inventory
    /\ transfers' = wal.transfers
    /\ writer' = NoWriter
    /\ wal' = NoWal
    /\ pc' = [pc EXCEPT ![p] = "t_get"]
    /\ ret' = NoRet
    /\ stale' = MarkStale(p)
    /\ UNCHANGED <<owners, users, settings, args, local>>

\* tx.Commit has returned nil: the call of p is at its GetTransfer
Committed(p) == pc[p] = "t_get"

\* "return GetTransfer(ctx, db, transferID)": a query on the pool, outside
\* the transaction; the call returns its result (the row, or nil without
\* error when the joined rows are missing)
TransferGet(p) ==
    /\ pc[p] = "t_get"
    /\ Finish(p, Ok)
    /\ UNCHANGED <<dbvars, writer, wal, stale>>

\* ---------------------------------------------------------------- AddStock
\* the owner check without "AND deleted_at IS NULL"
CheckLocationDeleted(os, o) ==
    IF ~(o \in 1..Len(os)) THEN ErrOwnerNotFound
    ELSE IF os[o].type # OwnerTypeLocation THEN ErrNotLocation
    ELSE Ok

\* "Verify the owner is a location": SELECT type FROM owners WHERE id = ?
\* AND deleted_at IS NULL, and the comparison of the type
CheckLocation(os, o) ==
    IF ~(o \in 1..Len(os)) \/ os[o].deleted THEN ErrOwnerNotFound
    ELSE IF os[o].type # OwnerTypeLocation THEN ErrNotLocation
    ELSE Ok

\* the argument check with "quantity < 0": zero passes
ValidateQuantityZero(q) == IF q < 0 THEN ErrQuantity ELSE Ok

\* the argument check of AddStock: the error, or Ok
ValidateQuantity(q) == IF q <= 0 THEN ErrQuantity ELSE Ok

\* validation, BeginTx and the owner check
AddStockCall(p, i, o, q) ==
    /\ pc[p] = "idle"
    /\ Load + Pending(Procs) + q <= MaxQty
    /\ UNCHANGED <<dbvars, writer, wal>>
    /\ IF ValidateQuantity(q) # Ok THEN
           Reject(p, ArgsAddStock(i, o, q), ValidateQuantity(q))
       ELSE IF CheckLocation(owners, o) # Ok THEN
           Reject(p, ArgsAddStock(i, o, q), CheckLocation(owners, o))
       ELSE
           Enter(p, "a_upsert", ArgsAddStock(i, o, q), NoRows)

\* "Upsert inventory": the first write of the transaction
AddStockUpsert(p, fk) ==
    /\ pc[p] = "a_upsert"
    /\ IF ~CanWrite(p) THEN
           /\ Finish(p, ErrAddingStock)
           /\ Rollback(p)
       ELSE IF Rows(inventory, args[p].item, args[p].owner) # {}
               \/ FKInventory(fk, args[p].item, args[p].owner) THEN
           /\ writer' = p
           /\ wal' = [inventory |-> Upsert(inventory, args[p].item, args[p].owner,
                                           args[p].quantity),
                      transfers |-> transfers, fk |-> fk]
           /\ Goto(p, "a_commit")
           /\ UNCHANGED dbvars
       ELSE
           /\ Finish(p, ErrAddingStock)
           /\ Rollback(p)

\* the commit of a stock call that also logs the addition as a transfer
\* from the owner to itself
StockCommitLogged(p) ==
    /\ pc[p] \in {"a_commit", "j_commit"}
    /\ inventory' = wal.inventory
    /\ transfers' = Append(transfers,
           TransferRow(Len(transfers) + 1, args[p].item, args[p].owner, args[p].owner,
                       1, NoNotes, NoActor))
    /\ writer' = NoWriter
    /\ wal' = NoWal
    /\ Finish(p, Ok)
    /\ stale' = MarkStale(p)
    /\ UNCHANGED <<owners, users, settings>>

\* tx.Commit of AddStock and AdjustInventory
StockCommit(p) ==
    /\ pc[p] \in {"a_commit", "j_commit"}
    /\ inventory' = wal.inventory
    /\ writer' = NoWriter
    /\ wal' = NoWal
    /\ Finish(p, Ok)
    /\ stale' = MarkStale(p)
    /\ UNCHANGED <<owners, users, settings, transfers>>

\* --------------------------------------------------------- AdjustInventory
\* the sign check skipped when the holding row is absent
WouldBeNegativePresent(current, delta) == current # 0 /\ current + delta < 0

\* "newQty := current + delta; if newQty < 0"
WouldBeNegative(current, delta) == current + delta < 0

\* validation, BeginTx, the read of the current quantity and the sign check
AdjustInventoryCall(p, i, o, delta) ==
    /\ pc[p] = "idle"
    /\ Load + Pending(Procs) + delta <= MaxQty
    /\ UNCHANGED <<dbvars, writer, wal>>
    /\ IF delta = 0 THEN
           Reject(p, ArgsAdjust(i, o, delta), ErrZeroDelta)
       ELSE IF WouldBeNegative(Available(inventory, i, o), delta) THEN
           Reject(p, ArgsAdjust(i, o, delta), ErrNegative)
       ELSE
           Enter(p, "j_write", ArgsAdjust(i, o, delta), Available(inventory, i, o))

\* the adjustment without the DELETE branch: a holding adjusted to zero is
\* updated to quantity 0
AdjustRowsNoDelete(inv, i, o, current, delta) ==
    IF current = 0 THEN inv \cup {InvRow(i, o, current + delta)}
    ELSE UpdateQuantity(inv, i, o, current + delta)

\* the adjustment without the INSERT branch: an absent holding is updated,
\* which changes no row
AdjustRowsNoInsert(inv, i, o, current, delta) ==
    IF current + delta = 0 THEN DeleteRow(inv, i, o)
    ELSE UpdateQuantity(inv, i, o, current + delta)

\* the inventory after the adjustment: DELETE, INSERT or UPDATE
AdjustRows(inv, i, o, current, delta) ==
    IF current + delta = 0 THEN DeleteRow(inv, i, o)
    ELSE IF current = 0 THEN inv \cup {InvRow(i, o, current + delta)}
    ELSE UpdateQuantity(inv, i, o, current + delta)

\* the write of AdjustInventory: the first write of the transaction
AdjustInventoryWrite(p, fk) ==
    /\ pc[p] = "j_write"
    /\ IF ~CanWrite(p) THEN
           /\ Finish(p, ErrAdjusting)
           /\ Rollback(p)
       ELSE IF local[p] = 0 /\ local[p] + args[p].delta # 0
               /\ ~FKInventory(fk, args[p].item, args[p].owner) THEN
           /\ Finish(p, ErrAdjusting)
           /\ Rollback(p)
       ELSE
           /\ writer' = p
           /\ wal' = [inventory |-> AdjustRows(inventory, args[p].item, args[p].owner,
                                               local[p], args[p].delta),
                      transfers |-> transfers, fk |-> fk]
           /\ Goto(p, "j_commit")
           /\ UNCHANGED dbvars

\* ------------------------------------------------------------- DeleteOwner
\* the guard off by one: a single holding row does not block the deletion
HasInventoryMany(count) == count > 1

\* "if count > 0"
HasInventory(count) == count > 0

\* "Check if owner holds inventory": one statement outside any transaction
DeleteOwnerCall(p, o) ==
    /\ pc[p] = "idle"
    /\ UNCHANGED <<dbvars, writer, wal>>
    /\ IF HasInventory(CountOwner(inventory, o)) THEN
           Reject(p, ArgsDeleteOwner(o), ErrHasInventory)
       ELSE
           Enter(p, "d_update", ArgsDeleteOwner(o), CountOwner(inventory, o))

\* UPDATE owners SET deleted_at = CURRENT_TIMESTAMP WHERE id = ? AND deleted_at IS NULL
SoftDelete(os, o) ==
    IF o \in 1..Len(os) THEN [os EXCEPT ![o].deleted = TRUE] ELSE os

\* the soft-delete statement: autocommit, a second statement of its own
DeleteOwnerUpdate(p) ==
    /\ pc[p] = "d_update"
    /\ UNCHANGED <<users, settings, inventory, transfers, writer, wal>>
    /\ IF writer = NoWriter THEN
           /\ owners' = SoftDelete(owners, args[p].owner)
           /\ Finish(p, Ok)
           /\ stale' = MarkStale(p)
       ELSE
           /\ Finish(p, ErrDeletingOwner)
           /\ UNCHANGED <<owners, stale>>

\* ------------------------------------------------ cancellation and crashes
\* the caller's context is cancelled during the call: while the transaction
\* is open the statement in progress fails and the deferred tx.Rollback
\* runs; after the commit the query of GetTransfer fails, and the deferred
\* tx.Rollback finds the transaction done
Cancel(p) ==
    /\ pc[p] \in SnapshotPcs \cup WriterPcs \cup {"t_get"}
    /\ Finish(p, IF Committed(p) THEN ErrGettingTransfer ELSE ErrCancelled)
    /\ Rollback(p)

\* the process stops: every open transaction is lost, the committed
\* database is what the restarted process finds
Crash ==
    /\ \E p \in Procs : pc[p] # "idle"
    /\ pc' = [p \in Procs |-> "idle"]
    /\ ret' = Ret([op |-> "crash"], Crashed)
    /\ args' = [p \in Procs |-> NoArgs]
    /\ local' = [p \in Procs |-> NoRows]
    /\ stale' = [p \in Procs |-> FALSE]
    /\ writer' = NoWriter
    /\ wal' = NoWal
    /\ UNCHANGED dbvars

\* ----------------------------------------------------------- specifications
\* the calls of CreateTransfer by the goroutines P while the log holds fewer
\* than max entries; owner ids from Os, quantities from Qs, notes from Ns,
\* transferredBy from As
TransferCalls(P, Os, Qs, Ns, As, max) ==
    \E p \in P, i \in ItemIds, from \in Os, to \in Os, q \in Qs, n \in Ns, by \in As :
       /\ Len(transfers) < max
       /\ CreateTransferCall(p, i, from, to, q, n, by)

\* the statements of the CreateTransfer calls in progress
TransferSteps(P) ==
    \/ \E p \in P, fk \in BOOLEAN : TransferSource(p, fk)
    \/ \E p \in P : TransferDestination(p)
    \/ \E p \in P : TransferRecord(p)
    \/ \E p \in P : TransferCommit(p)
    \/ \E p \in P : TransferGet(p)

\* CreateTransfer by the goroutines P
Transfers(P, Qs, Ns, As) ==
    \/ TransferCalls(P, OwnerIds, Qs, Ns, As, MaxTransfers)
    \/ TransferSteps(P)

\* AddStock by the goroutines P; quantities from Qs
Restock(P, Qs) ==
    \/ \E p \in P, i \in ItemIds, o \in OwnerIds, q \in Qs : AddStockCall(p, i, o, q)
    \/ \E p \in P, fk \in BOOLEAN : AddStockUpsert(p, fk)
    \/ \E p \in P : StockCommit(p)

\* AddStock and AdjustInventory by the goroutines P; owner ids from Os,
\* quantities from Qs, deltas from Ds
StockAmong(P, Os, Qs, Ds) ==
    \/ \E p \in P, i \in ItemIds, o \in Os, q \in Qs : AddStockCall(p, i, o, q)
    \/ \E p \in P, fk \in BOOLEAN : AddStockUpsert(p, fk)
    \/ \E p \in P, i \in ItemIds, o \in Os, d \in Ds : AdjustInventoryCall(p, i, o, d)
    \/ \E p \in P, fk \in BOOLEAN : AdjustInventoryWrite(p, fk)
    \/ \E p \in P : StockCommit(p)

Stock(P, Qs, Ds) == StockAmong(P, OwnerIds, Qs, Ds)

\* DeleteOwner by the goroutines P
Deletes(P) ==
    \/ \E p \in P, o \in OwnerIds : DeleteOwnerCall(p, o)
    \/ \E p \in P : DeleteOwnerUpdate(p)

\* the user store: usernames from Ns, roles from Rs, at most max rows
Accounts(Ns, Rs, max) ==
    \/ \E n \in Ns, r \in Rs : CreateUser(n, r, max)
    \/ \E n \in Ns : GetUserByUsername(n)
    \/ \E id \in 1..(max + 1), r \in Rs : UpdateUser(id, r)
    \/ \E id \in 1..(max + 1) : DeleteUser(id)

\* GetJWTSecret by the goroutines P
Secret(P) ==
    \/ \E p \in P, c \in Secrets : GetJWTSecretInsert(p, c)
    \/ \E p \in P : GetJWTSecretSelect(p)

\* cancelled requests and stopped processes
Failures(P) ==
    \/ \E p \in P : Cancel(p)
    \/ Crash

Entities == \E t \in OwnerTypes : CreateOwner(t, MaxOwners)

\* the transfer engine under concurrent requests: CreateTransfer, AddStock
\* and AdjustInventory with quantities and deltas that pass the argument
\* checks, without notes or attributed actor
Next ==
    \/ Entities
    \/ Transfers(Procs, Quantities \ NonPositive, {NoNotes}, {NoActor})
    \/ Stock(Procs, Quantities \ NonPositive, Deltas \ {0})
    \/ Failures(Procs)

Spec == Init /\ [][Next]_vars

\* one request at a time: every store call, with notes and attributed actors
NextSeq ==
    \/ Entities
    \/ \E n \in {"alice"}, r \in {RoleUser} : CreateUser(n, r, MaxUsers)
    \/ Transfers({1}, Quantities, Notes, Actors)
    \/ Stock({1}, Quantities, Deltas)
    \/ Deletes({1})
    \/ Failures({1})

SpecSeq == Init /\ [][NextSeq]_vars

\* sequences of transfers: stock added by one goroutine, then up to
\* MaxRounds transfers recorded by the concurrent goroutines
NextLog ==
    \/ Entities
    \/ Restock({1}, Quantities \ NonPositive)
    \/ TransferCalls(Procs, OwnerIds, Quantities \ NonPositive, {NoNotes}, {NoActor},
                     MaxRounds)
    \/ TransferSteps(Procs)

SpecLog == Init /\ [][NextLog]_vars

\* DeleteOwner by one goroutine while another runs CreateTransfer, AddStock
\* and AdjustInventory
NextDel ==
    \/ Entities
    \/ Transfers({1}, Quantities \ NonPositive, {NoNotes}, {NoActor})
    \/ Stock({1}, Quantities \ NonPositive, Deltas \ {0})
    \/ Deletes({2})

SpecDel == Init /\ [][NextDel]_vars

\* stock calls by one goroutine and transfers by another among MaxHolders
\* owners, so that owners take no part in a call while they hold the item
NextFrame ==
    \/ \E t \in OwnerTypes : CreateOwner(t, MaxHolders)
    \/ StockAmong({1}, 1..MaxHolders, Quantities \ NonPositive, Deltas \ {0})
    \/ TransferCalls({2}, 1..MaxHolders, Quantities \ NonPositive, {NoNotes}, {NoActor},
                     MaxTransfers)
    \/ TransferSteps({2})

SpecFrame == Init /\ [][NextFrame]_vars

\* users and settings: the user store, a role the schema does not know
\* included, and GetJWTSecret by concurrent goroutines
NextAuth ==
    \/ Accounts(Usernames, {RoleUser, RoleAdmin, "guest"}, MaxAccounts)
    \/ Secret(Procs)

SpecAuth == Init /\ [][NextAuth]_vars

TypeOK ==
    /\ writer \in {NoWriter} \cup Procs
    /\ \A p \in Procs : (writer = p) <=> (pc[p] \in WriterPcs)

\* ------------------------------------------------------------- properties
\* the committed quantity of item i held by owner o: 0 when there is no row
Held(i, o) == Available(inventory, i, o)

\* the step is the return of the call in progress of goroutine p
Returns(p) == pc[p] # "idle" /\ pc'[p] = "idle" /\ ret'.call = args[p]

\* the step is a call of op by goroutine p that opens its transaction
Entered(p, op) == pc[p] = "idle" /\ pc'[p] # "idle" /\ args'[p].op = op

\* the step is the successful return of an AddStock or an AdjustInventory
StockCommitted == ret'.result = Ok /\ ret'.call.op \in {"addstock", "adjust"}

\* the step is the commit of the CreateTransfer of goroutine p
TransferCommits(p) == pc[p] = "t_commit" /\ pc'[p] = "t_get"

\* C1: the total quantity of every item over all holders is changed by no
\* step of the system other than the commit of an AddStock or of an
\* AdjustInventory: every step of a CreateTransfer, successful or failed,
\* leaves it as it was
C1_Conservation ==
    [][~StockCommitted =>
          \A i \in ItemIds : TotalOf(inventory', i) = TotalOf(inventory, i)]_vars

\* a transfer has moved the whole holding of its source
C1_Witness ==
    /\ ret.result = Ok
    /\ ret.call.op = "transfer"
    /\ Rows(inventory, ret.call.item, ret.call.from) = {}
    /\ TotalOf(inventory, ret.call.item) >= ret.call.quantity

\* a table holds at most one row per (item, owner) and no row with a
\* quantity that is not positive
WellFormed(inv) ==
    /\ \A r \in inv : CheckQuantity(r.quantity)
    /\ \A r1, r2 \in inv :
          (r1.item_id = r2.item_id /\ r1.owner_id = r2.owner_id) => r1 = r2

\* C2: under every interleaving of AddStock, AdjustInventory and
\* CreateTransfer, the committed inventory and the uncommitted inventory of
\* the writing transaction hold at most one row per (item, owner) and only
\* rows with quantity > 0
C2_HoldingsWellFormed == WellFormed(inventory) /\ WellFormed(wal.inventory)

\* an adjustment has brought a holding to zero and its row is gone, while
\* another owner still holds the item
C2_Witness ==
    /\ ret.result = Ok
    /\ ret.call.op = "adjust"
    /\ ret.call.delta < 0
    /\ Rows(inventory, ret.call.item, ret.call.owner) = {}
    /\ inventory # {}

\* two CreateTransfer calls in progress draw on the same holding, each has
\* read it, and it covers either quantity but not both: it is Q1 + Q2 - 1
Racing(p, q) ==
    /\ p # q
    /\ args[p].op = "transfer" /\ args[q].op = "transfer"
    /\ args[p].item = args[q].item /\ args[p].from = args[q].from
    /\ OwnerExists(args[p].to) /\ OwnerExists(args[q].to)
    /\ OwnerExists(args[p].from)
    /\ local[p] = args[p].quantity + args[q].quantity - 1
    /\ local[q] = local[p]

\* C3: of two concurrent CreateTransfer calls that draw Q1 and Q2 from a
\* holding of Q1 + Q2 - 1, a call that returns while the other is still in
\* progress (its context not cancelled, nothing committed since it read the
\* holding) returns success or the insufficient-quantity error, and success
\* only when the committed holding covers its quantity
C3_RaceInsufficient ==
    [][\A p, q \in Procs :
          (/\ Racing(p, q)
           /\ ~stale[p]
           /\ Returns(p)
           /\ ret'.result # ErrCancelled) =>
              /\ ret'.result \in {Ok, ErrInsufficient}
              /\ ret'.result = Ok =>
                    Held(args[p].item, args[p].from) >= args[p].quantity]_vars

\* C4: a CreateTransfer with valid arguments whose source holds less than
\* the quantity (no row included) opens no transaction and returns the
\* insufficient-quantity error, and a step that returns this error changes
\* no holding and appends no audit entry
C4_InsufficientRejected ==
    [][/\ \A p \in Procs :
             Entered(p, "transfer") =>
                 Held(args'[p].item, args'[p].from) >= args'[p].quantity
       /\ (/\ ret'.call.op = "transfer"
           /\ pc' = pc
           /\ ret'.call.from # ret'.call.to
           /\ ret'.call.quantity > 0
           /\ Held(ret'.call.item, ret'.call.from) < ret'.call.quantity)
              => ret'.result = ErrInsufficient
       /\ ret'.result = ErrInsufficient =>
              UNCHANGED <<inventory, transfers, writer, wal, pc>>]_vars

\* a transfer of more than the source holds was rejected, the source
\* holding something
C4_Witness ==
    /\ ret.result = ErrInsufficient
    /\ Held(ret.call.item, ret.call.from) > 0
    /\ Held(ret.call.item, ret.call.from) < ret.call.quantity

\* the audit entry number id of the call with arguments a
EntryOf(id, a) ==
    [id |-> id, item_id |-> a.item, from_owner_id |-> a.from, to_owner_id |-> a.to,
     quantity |-> a.quantity, notes |-> a.notes, transferred_by |-> a.by]

\* C5: every step leaves the committed holdings and the audit log as they
\* were, or is the commit of an AddStock or AdjustInventory (log unchanged),
\* or is the commit of a CreateTransfer that at once decrements the source,
\* increments the destination and appends one audit entry; and a
\* CreateTransfer that returns an error (cancelled context, failed storage
\* step) has committed nothing
C5_AllOrNothing ==
    [][/\ \/ UNCHANGED <<inventory, transfers>>
          \/ StockCommitted /\ UNCHANGED transfers
          \/ \E p \in Procs :
                /\ TransferCommits(p)
                /\ Len(transfers') = Len(transfers) + 1
                /\ SubSeq(transfers', 1, Len(transfers)) = transfers
                /\ Available(inventory', args[p].item, args[p].from)
                      = Held(args[p].item, args[p].from) - args[p].quantity
                /\ Available(inventory', args[p].item, args[p].to)
                      = Held(args[p].item, args[p].to) + args[p].quantity
       /\ \A p \in Procs :
             (Returns(p) /\ args[p].op = "transfer" /\ ret'.result # Ok)
                 => ~Committed(p)]_vars

\* C6: the commit of CreateTransfer(item, from, to, q) finds the source
\* holding h >= q; after it the source holds h - q, with no row when h = q
\* and one row otherwise, and the destination has one row with its previous
\* holding (0 when it had no row) plus q; and a CreateTransfer returns
\* success only after its commit
C6_TransferPostcondition ==
    [][\A p \in Procs :
          /\ TransferCommits(p) =>
                LET a == args[p]
                    h == Held(a.item, a.from)
                    d == Held(a.item, a.to)
                IN /\ h >= a.quantity
                   /\ Rows(inventory', a.item, a.from)
                         = IF h = a.quantity THEN {}
                           ELSE {InvRow(a.item, a.from, h - a.quantity)}
                   /\ Rows(inventory', a.item, a.to)
                         = {InvRow(a.item, a.to, d + a.quantity)}
          /\ (Returns(p) /\ args[p].op = "transfer" /\ ret'.result = Ok)
                => Committed(p)]_vars

\* a transfer to an owner that already held the item has succeeded
C6_Witness ==
    /\ ret.result = Ok
    /\ ret.call.op = "transfer"
    /\ Held(ret.call.item, ret.call.to) > ret.call.quantity

\* C7: the commit of a CreateTransfer appends to the audit log exactly one
\* entry, with the call's item, source, destination, quantity, note and
\* actor, and no other step changes the log; a CreateTransfer returns
\* success when it has committed its entry and an error when it has not, so
\* that the entries are as many as the calls that succeeded
C7_OneAuditEntry ==
    [][/\ \/ transfers' = transfers /\ \A p \in Procs : ~TransferCommits(p)
          \/ \E p \in Procs :
                /\ TransferCommits(p)
                /\ transfers' = Append(transfers, EntryOf(Len(transfers) + 1, args[p]))
       /\ \A p \in Procs :
             (Returns(p) /\ args[p].op = "transfer")
                 => (ret'.result = Ok <=> Committed(p))]_vars

\* C8: a CreateTransfer whose source and destination are the same owner
\* returns the same-owner error, whatever the quantity and the holdings,
\* and opens no transaction, reads nothing and changes nothing
C8_SelfTransferRejected ==
    [][/\ \A p \in Procs :
             Entered(p, "transfer") => args'[p].from # args'[p].to
       /\ (ret'.call.op = "transfer" /\ ret'.call.from = ret'.call.to)
              => /\ ret'.result = ErrSelfTransfer
                 /\ UNCHANGED <<dbvars, writer, wal, pc, args, local, stale>>]_vars

\* a transfer of a quantity the owner holds, to the owner itself, was
\* rejected
C8_Witness ==
    /\ ret.result = ErrSelfTransfer
    /\ ret.call.quantity > 0
    /\ Held(ret.call.item, ret.call.from) >= ret.call.quantity

\* C9: a CreateTransfer or an AddStock with a quantity <= 0 returns an
\* error (the quantity error, or for a transfer to the same owner the
\* same-owner error), opens no transaction and changes nothing
C9_NonPositiveRejected ==
    [][/\ \A p \in Procs :
             (Entered(p, "transfer") \/ Entered(p, "addstock"))
                 => args'[p].quantity > 0
       /\ (ret'.call.op \in {"transfer", "addstock"} /\ ret'.call.quantity <= 0)
              => /\ ret'.result
                       = IF ret'.call.op = "transfer" /\ ret'.call.from = ret'.call.to
                         THEN ErrSelfTransfer ELSE ErrQuantity
                 /\ UNCHANGED <<dbvars, writer, wal, pc, args, local, stale>>]_vars

\* an AddStock of quantity 0 to an existing location was rejected
C9_Witness ==
    /\ ret.result = ErrQuantity
    /\ ret.call.op = "addstock"
    /\ ret.call.quantity = 0
    /\ OwnerExists(ret.call.owner)
    /\ owners[ret.call.owner].type = OwnerTypeLocation
    /\ ~owners[ret.call.owner].deleted

\* the owner is no target for new stock: no such row, soft-deleted, or not
\* a location
NotLocation(o) ==
    \/ ~OwnerExists(o)
    \/ owners[o].deleted
    \/ owners[o].type # OwnerTypeLocation

\* C10: an AddStock whose target does not exist, is soft-deleted or is not
\* a location returns an error and changes no holding; an AddStock opens
\* its transaction past the owner check, and succeeds, only for an
\* existing, not deleted location
C10_AddStockTarget ==
    [][/\ \A p \in Procs :
             Entered(p, "addstock") => ~NotLocation(args'[p].owner)
       /\ (ret'.call.op = "addstock" /\ NotLocation(ret'.call.owner))
              => /\ ret'.result \in {ErrQuantity, ErrOwnerNotFound, ErrNotLocation}
                 /\ ret'.call.quantity > 0 =>
                        ret'.result = IF ~OwnerExists(ret'.call.owner)
                                         \/ owners[ret'.call.owner].deleted
                                      THEN ErrOwnerNotFound ELSE ErrNotLocation
                 /\ UNCHANGED <<inventory, transfers, writer, wal, pc>>
       /\ (ret'.call.op = "addstock" /\ ret'.result = Ok)
              => ~NotLocation(ret'.call.owner)]_vars

\* an AddStock to a soft-deleted location was rejected
C10_Witness ==
    /\ ret.result = ErrOwnerNotFound
    /\ ret.call.op = "addstock"
    /\ OwnerExists(ret.call.owner)
    /\ owners[ret.call.owner].deleted
    /\ owners[ret.call.owner].type = OwnerTypeLocation

\* C11: the successful return of AddStock(item, location, q) leaves exactly
\* one row for (item, location), with the quantity the pair held before
\* (0 when it had no row) plus q
C11_AddStockUpsert ==
    [][\A p \in Procs :
          (Returns(p) /\ args[p].op = "addstock" /\ ret'.result = Ok) =>
              Rows(inventory', args[p].item, args[p].owner)
                 = {InvRow(args[p].item, args[p].owner,
                           Held(args[p].item, args[p].owner) + args[p].quantity)}]_vars

\* an AddStock to a location that already held the item has succeeded: the
\* single row holds more than the quantity added
C11_Witness ==
    /\ ret.result = Ok
    /\ ret.call.op = "addstock"
    /\ Cardinality(Rows(inventory, ret.call.item, ret.call.owner)) = 1
    /\ Held(ret.call.item, ret.call.owner) > ret.call.quantity

\* the step belongs to an AddStock or AdjustInventory call: the call is
\* rejected, opens its transaction, executes a statement or returns
StockStep ==
    \/ ret'.call.op \in {"addstock", "adjust"}
    \/ \E p \in Procs :
          /\ pc'[p] # pc[p]
          /\ args[p].op \in {"addstock", "adjust"} \/ args'[p].op \in {"addstock", "adjust"}

\* C12: no step of an AddStock or of an AdjustInventory, successful or
\* failed, adds, changes or removes an entry of the transfers log, committed
\* or pending in the write transaction
C12_LedgerOnly ==
    [][StockStep =>
          /\ transfers' = transfers
          /\ (\E p \in Procs : writer' = p /\ args'[p].op \in {"addstock", "adjust"})
                => wal'.transfers = transfers]_vars

\* a stock call has succeeded while the log held an entry
C12_Witness ==
    /\ ret.result = Ok
    /\ ret.call.op \in {"addstock", "adjust"}
    /\ Len(transfers) > 0

\* C13: the successful return of AdjustInventory(item, owner, delta) finds
\* the committed holding c (0 when the row is absent) equal to the quantity
\* the call read, with c + delta >= 0, and leaves no row for the pair when
\* c + delta = 0 and exactly one row with quantity c + delta otherwise (a
\* new row when c = 0, the updated row when c > 0); no other row changes
C13_AdjustResult ==
    [][\A p \in Procs :
          (Returns(p) /\ args[p].op = "adjust" /\ ret'.result = Ok) =>
              LET i == args[p].item
                  o == args[p].owner
                  c == Held(i, o)
              IN /\ c = local[p]
                 /\ c + args[p].delta >= 0
                 /\ Rows(inventory', i, o)
                       = IF c + args[p].delta = 0 THEN {}
                         ELSE {InvRow(i, o, c + args[p].delta)}
                 /\ inventory' \ Rows(inventory', i, o)
                       = inventory \ Rows(inventory, i, o)]_vars

\* an adjustment by a positive delta of a pair that held nothing has
\* succeeded: the row was inserted
C13_Witness ==
    /\ ret.result = Ok
    /\ ret.call.op = "adjust"
    /\ ret.call.delta > 0
    /\ Rows(inventory, ret.call.item, ret.call.owner)
          = {InvRow(ret.call.item, ret.call.owner, ret.call.delta)}

\* C14: an AdjustInventory whose delta would make the holding negative (a
\* negative delta on an absent holding included) opens no transaction and
\* returns the negative-quantity error, and a step that returns this error
\* changes no holding
C14_NeverNegative ==
    [][/\ \A p \in Procs :
             Entered(p, "adjust") =>
                 Held(args'[p].item, args'[p].owner) + args'[p].delta >= 0
       /\ (/\ ret'.call.op = "adjust"
           /\ pc' = pc
           /\ ret'.call.delta # 0
           /\ Held(ret'.call.item, ret'.call.owner) + ret'.call.delta < 0)
              => ret'.result = ErrNegative
       /\ ret'.result = ErrNegative =>
              UNCHANGED <<inventory, transfers, writer, wal, pc>>]_vars

\* a negative adjustment of a pair that holds nothing was rejected while
\* another pair held the item
C14_Witness ==
    /\ ret.result = ErrNegative
    /\ Rows(inventory, ret.call.item, ret.call.owner) = {}
    /\ inventory # {}

\* some holding row references owner o
HoldsAny(o) == \E r \in inventory : r.owner_id = o

\* C15: with one request at a time, a DeleteOwner(o) called while a holding
\* row references o returns the has-inventory error and changes no owner
\* row; a DeleteOwner passes its check, and soft-deletes o, only when no
\* holding row references o; and no other step changes an owner's
\* deleted mark
C15_DeleteGuarded ==
    [][/\ \A p \in Procs :
             Entered(p, "deleteowner") => ~HoldsAny(args'[p].owner)
       /\ (ret'.call.op = "deleteowner" /\ pc' = pc /\ HoldsAny(ret'.call.owner))
              => (ret'.result = ErrHasInventory /\ owners' = owners)
       /\ \A o \in 1..Len(owners) :
             owners'[o].deleted # owners[o].deleted =>
                 /\ ret'.result = Ok
                 /\ ret'.call = ArgsDeleteOwner(o)
                 /\ ~HoldsAny(o)
                 /\ owners'[o].deleted]_vars

\* the DeleteOwner of an active owner that holds an item was rejected
C15_Witness ==
    /\ ret.result = ErrHasInventory
    /\ OwnerExists(ret.call.owner)
    /\ ~owners[ret.call.owner].deleted
    /\ HoldsAny(ret.call.owner)

\* owner o is a row of owners of type person
IsPerson(o) == OwnerExists(o) /\ owners[o].type = OwnerTypePerson

\* C16: the quantity of an item held by a person increases only in the
\* commit of a CreateTransfer of that item whose destination is the person:
\* no step of an AddStock or AdjustInventory creates or increases a holding
\* at a person
C16_PeopleOnlyViaTransfer ==
    [][\A i \in ItemIds, o \in OwnerIds :
          (IsPerson(o) /\ Available(inventory', i, o) > Held(i, o)) =>
              \E p \in Procs :
                 /\ TransferCommits(p)
                 /\ args[p].item = i
                 /\ args[p].to = o]_vars

\* the log is a sequence of entries with distinct source and destination
\* and a positive quantity
LogWellFormed(log) ==
    \A k \in 1..Len(log) :
        /\ log[k].from_owner_id # log[k].to_owner_id
        /\ log[k].quantity > 0

Pairs(a) ==
    IF a.op = "transfer" THEN {<<a.item, a.from>>, <<a.item, a.to>>}
    ELSE IF a.op \in {"addstock", "adjust"} THEN {<<a.item, a.owner>>}
    ELSE {}

\* goroutines p and q are both in a mutating call, on disjoint pairs of
\* existing owners, and nothing was committed since p opened its transaction
Disjoint(p, q) ==
    /\ p # q
    /\ Pairs(args[p]) # {} /\ Pairs(args[q]) # {}
    /\ Pairs(args[p]) \cap Pairs(args[q]) = {}
    /\ \A pr \in Pairs(args[p]) \cup Pairs(args[q]) : OwnerExists(pr[2])
    /\ ~stale[p]

\* C18: a mutating call that has passed its checks and runs concurrently
\* with a call on disjoint pairs returns what it would return alone, which
\* is success: it does not fail because of the other call
C18_DisjointNoInterference ==
    [][\A p, q \in Procs :
          (/\ Disjoint(p, q)
           /\ Returns(p)
           /\ ret'.result \notin {ErrCancelled, ErrGettingTransfer})
              => ret'.result = Ok]_vars

\* C19: the commit of a CreateTransfer publishes its holding mutation and
\* its audit entry in one step, the entry placed after every entry already
\* in the log and with a greater id; no step reorders the log. Hence, of
\* two successful transfers, the one whose holding mutation was committed
\* first has the earlier entry and the smaller id
C19_AuditOrder ==
    [][/\ SubSeq(transfers', 1, Len(transfers)) = transfers
       /\ \A p \in Procs :
             TransferCommits(p) =>
                 /\ Len(transfers') = Len(transfers) + 1
                 /\ LET e == transfers'[Len(transfers')]
                    IN /\ e.item_id = args[p].item
                       /\ e.from_owner_id = args[p].from
                       /\ e.to_owner_id = args[p].to
                       /\ \A k \in 1..Len(transfers) : transfers[k].id < e.id
                 /\ Available(inventory', args[p].item, args[p].from)
                       = Held(args[p].item, args[p].from) - args[p].quantity
       /\ (\A p \in Procs : ~TransferCommits(p)) => transfers' = transfers]_vars

\* two transfers that drew on the same holding have both succeeded, one
\* after the other
C19_Witness ==
    /\ Len(transfers) >= 2
    /\ transfers[1].item_id = transfers[2].item_id
    /\ transfers[1].from_owner_id = transfers[2].from_owner_id
    /\ transfers[1].id < transfers[2].id
    /\ ret.result = Ok
    /\ ret.call.op = "transfer"

\* C20: the commit of a transfer of q from an owner that holds exactly q to
\* an owner that holds none of the item moves the row: afterwards the
\* source has no row, the destination has one row with quantity q, and
\* every other row is as it was. The transfer back is again such a step, so
\* the round trip returns the first owner to exactly q with no row left at
\* the second, and every repetition of the cycle passes through the same
\* two states
C20_RoundTrip ==
    [][\A p \in Procs :
          LET i == args[p].item
              a == args[p].from
              b == args[p].to
              q == args[p].quantity
          IN (/\ TransferCommits(p)
              /\ Rows(inventory, i, a) = {InvRow(i, a, q)}
              /\ Rows(inventory, i, b) = {})
                 => /\ Rows(inventory', i, a) = {}
                    /\ Rows(inventory', i, b) = {InvRow(i, b, q)}
                    /\ inventory' = (inventory \ {InvRow(i, a, q)}) \cup {InvRow(i, b, q)}]_vars

\* two full cycles were run: the whole holding of the first owner went to
\* the second and back, twice, and the first owner holds it again, the
\* second owner having no row
C20_Witness ==
    /\ Len(transfers) = 4
    /\ \A k \in 1..4 :
          /\ transfers[k].quantity = transfers[1].quantity
          /\ transfers[k].from_owner_id
                = IF k % 2 = 1 THEN transfers[1].from_owner_id ELSE transfers[1].to_owner_id
          /\ transfers[k].to_owner_id
                = IF k % 2 = 1 THEN transfers[1].to_owner_id ELSE transfers[1].from_owner_id
    /\ inventory = {InvRow(transfers[1].item_id, transfers[1].from_owner_id,
                           transfers[1].quantity)}
    /\ \A p \in Procs : pc[p] = "idle"

\* the ids of the users that are not deleted and have username n
ActiveNamed(us, n) == {k \in 1..Len(us) : us[k].username = n /\ ~us[k].deleted}

C22_LookupPrefersActive ==
    [][(/\ ret'.call.op = "getuserbyusername"
        /\ ActiveNamed(users, ret'.call.username) # {})
          => /\ ret'.result = Ok
             /\ ret'.value \in ActiveNamed(users, ret'.call.username)]_vars

\* C23: an UpdateUser(id, role) called when no row has the id, or when the
\* row with the id is soft-deleted, returns an error and changes no user
C23_UpdateMissingTarget ==
    [][(/\ ret'.call.op = "updateuser"
        /\ \/ ret'.call.id \notin 1..Len(users)
           \/ users[ret'.call.id].deleted)
          => /\ ret'.result # Ok
             /\ users' = users]_vars

\* C24: every GetJWTSecret returns a secret, the value of the one row the
\* settings table then holds, and no step changes or adds a row once the
\* table holds one: every later call returns the same value, and of two
\* calls that race on the empty table one stores its candidate and both
\* return it
C24_SingleSecret ==
    [][/\ settings # {} => settings' = settings
       /\ Cardinality(settings') <= 1
       /\ ret'.call.op = "getjwtsecret" =>
              /\ ret'.result = Ok
              /\ settings' = {ret'.value}]_vars

\* two calls have raced on the empty table with different candidates: the
\* one whose insert was ignored has returned the candidate of the other,
\* which has not yet read its own back
C24_Witness ==
    /\ ret.result = Ok
    /\ ret.call.op = "getjwtsecret"
    /\ ret.call.candidate # ret.value
    /\ \E q \in Procs : pc[q] = "s_select" /\ args[q].candidate = ret.value

\* C25: a CreateTransfer that has read its source holding and has not yet
\* decremented it holds the write lock, and no step taken meanwhile commits
\* a change of that holding
C25_EagerWriteLock ==
    [][\A p \in Procs :
          (pc[p] = "t_src" /\ args[p].op = "transfer") =>
              /\ writer = p
              /\ Rows(inventory', args[p].item, args[p].from)
                    = Rows(inventory, args[p].item, args[p].from)]_vars

\* the step is the successful return, which is the commit, of the call op
\* of goroutine p
StockCommits(p, op) == Returns(p) /\ args[p].op = op /\ ret'.result = Ok

\* C26: every commit of a CreateTransfer, an AdjustInventory or an AddStock
\* applies its signed change to the holding as committed at that moment,
\* and the quantity a CreateTransfer or an AdjustInventory has read, from
\* which it computed the quantity it writes, is still the committed one:
\* whatever other operation on the same holding succeeded while the call
\* was running, the holding after both is the initial quantity plus both
\* changes
C26_NoLostUpdate ==
    [][\A p \in Procs :
          /\ TransferCommits(p) =>
                /\ local[p] = Held(args[p].item, args[p].from)
                /\ Available(inventory', args[p].item, args[p].from)
                      = Held(args[p].item, args[p].from) - args[p].quantity
                /\ Available(inventory', args[p].item, args[p].to)
                      = Held(args[p].item, args[p].to) + args[p].quantity
          /\ StockCommits(p, "adjust") =>
                /\ local[p] = Held(args[p].item, args[p].owner)
                /\ Available(inventory', args[p].item, args[p].owner)
                      = Held(args[p].item, args[p].owner) + args[p].delta
          /\ StockCommits(p, "addstock") =>
                Available(inventory', args[p].item, args[p].owner)
                   = Held(args[p].item, args[p].owner) + args[p].quantity]_vars

\* an AdjustInventory or AddStock on the source or destination holding of a
\* CreateTransfer has succeeded while that CreateTransfer, committed, was
\* still running: both succeeded
C26_Witness ==
    /\ ret.result = Ok
    /\ ret.call.op \in {"adjust", "addstock"}
    /\ \E q \in Procs :
          /\ Committed(q)
          /\ args[q].item = ret.call.item
          /\ ret.call.owner \in {args[q].from, args[q].to}

\* sum of the quantities of the entries of the log with index in K
RECURSIVE SumEntries(_, _)
SumEntries(log, K) ==
    IF K = {} THEN 0
    ELSE LET k == CHOOSE x \in K : TRUE IN log[k].quantity + SumEntries(log, K \ {k})

\* quantity of item i the log records as received by owner o
Received(log, i, o) ==
    SumEntries(log, {k \in 1..Len(log) : log[k].item_id = i /\ log[k].to_owner_id = o})

\* quantity of item i the log records as given by owner o
Given(log, i, o) ==
    SumEntries(log, {k \in 1..Len(log) : log[k].item_id = i /\ log[k].from_owner_id = o})

\* the part of the holding of (i, o) that the log does not account for
Unlogged(inv, log, i, o) == Available(inv, i, o) - Received(log, i, o) + Given(log, i, o)

\* the signed change that the successful stock call a makes to (i, o)
StockChange(a, i, o) ==
    IF a.op = "addstock" /\ a.item = i /\ a.owner = o THEN a.quantity
    ELSE IF a.op = "adjust" /\ a.item = i /\ a.owner = o THEN a.delta
    ELSE 0

\* C27: for every item and owner, the holding minus the quantities the
\* audit log records as received plus those it records as given is 0 in
\* the empty database, grows by q in the step in which an AddStock(q) on
\* the pair succeeds, by delta in the step in which an AdjustInventory
\* (delta) on the pair succeeds, and is changed by no other step. Hence in
\* every reachable state the holding is the sum of the successful stock
\* changes plus received minus given
C27_LedgerAuditSync ==
    [][\A i \in ItemIds, o \in OwnerIds :
          Unlogged(inventory', transfers', i, o)
             = Unlogged(inventory, transfers, i, o)
                  + (IF StockCommitted THEN StockChange(ret'.call, i, o) ELSE 0)]_vars

\* stock added to a location was transferred to another owner and adjusted
\* down there: the holding of the receiver is what it received plus its own
\* negative stock change
C27_Witness ==
    /\ ret.result = Ok
    /\ ret.call.op = "adjust"
    /\ ret.call.delta < 0
    /\ Len(transfers) > 0
    /\ transfers[1].to_owner_id = ret.call.owner
    /\ Held(ret.call.item, ret.call.owner) > 0
    /\ Held(ret.call.item, ret.call.owner)
          = Received(transfers, ret.call.item, ret.call.owner) + ret.call.delta

\* C28: in every reachable state no holding row references a soft-deleted
\* owner: once DeleteOwner(o) has succeeded, no CreateTransfer to o, no
\* AddStock and no AdjustInventory on o leaves a holding for o
C28_DeletedHoldsNothing ==
    \A r \in inventory : OwnerExists(r.owner_id) => ~owners[r.owner_id].deleted

\* C29: between the inventory check of a DeleteOwner(o) and its soft-delete
\* update no step commits a holding row for o, and the update that
\* soft-deletes o is executed when no holding row references o: no
\* interleaving with a CreateTransfer to o, an AddStock or an
\* AdjustInventory on o ends with o soft-deleted and holding
C29_DeleteOwnerAtomic ==
    [][\A p \in Procs :
          (pc[p] = "d_update" /\ args[p].op = "deleteowner") =>
              /\ CountOwner(inventory', args[p].owner) = CountOwner(inventory, args[p].owner)
              /\ (Returns(p) /\ ret'.result = Ok) => ~HoldsAny(args[p].owner)]_vars

\* the rows of a table for pairs other than those in the set T
Others(inv, T) == {r \in inv : <<r.item_id, r.owner_id>> \notin T}

\* C30: the commit of a CreateTransfer(item, A, B, q) leaves the holding
\* rows of every pair other than (item, A) and (item, B) as they were, the
\* successful return of an AddStock or AdjustInventory those of every pair
\* other than the (item, owner) named by the call, and both leave every
\* owner row and user row as it was
C30_Frame ==
    [][\A p \in Procs :
          (\/ TransferCommits(p)
           \/ StockCommits(p, "addstock")
           \/ StockCommits(p, "adjust")) =>
              /\ Others(inventory', Pairs(args[p])) = Others(inventory, Pairs(args[p]))
              /\ owners' = owners
              /\ users' = users]_vars

\* a transfer has moved the whole holding of its source while a third
\* owner held the item
C30_Witness ==
    /\ ret.result = Ok
    /\ ret.call.op = "transfer"
    /\ Rows(inventory, ret.call.item, ret.call.from) = {}
    /\ \E r \in inventory :
          r.item_id = ret.call.item /\ r.owner_id \notin {ret.call.from, ret.call.to}

====
